---- MODULE Spec2Model ----
(***************************************************************************)
(* GPUSparseMatrix<ElemType> (Source/Math/GPUSparseMatrix.h): the cached   *)
(* non-zero count, the packed-buffer layout arithmetic and the format      *)
(* restricted accessors.                                                   *)
(*                                                                         *)
(* Pointers are modelled as byte offsets from Buffer().  A call of a       *)
(* member function is one action; it records the function in op, its       *)
(* arguments in args, what it returned (or the fault that ended it) in     *)
(* ret, the number of FetchNzCount() calls it made in fetches and the      *)
(* value m_cachedNzCount had on entry in cachedBefore.                     *)
(***************************************************************************)
EXTENDS Integers, Sequences, FiniteSets, TLC

VARIABLES
    m_format,             \* BaseMatrix: GetFormat()
    m_numRows,            \* BaseMatrix: GetNumRows()
    m_numCols,            \* BaseMatrix: GetNumCols()
    m_elemSizeAllocated,  \* BaseMatrix: GetSizeAllocated(), reserved nz slots
    m_blockSize,          \* BaseMatrix: GetBlockSize()
    m_sliceViewOffset,    \* BaseMatrix: m_sliceViewOffset
    m_cachedNzCount,      \* the mutable cache
    deviceSecondaryIndex, \* device memory: the secondary index array of the buffer
    sizeofElemType,       \* sizeof(ElemType) of the instantiation
    op, args, ret, fetches, cachedBefore

matrixVars == <<m_format, m_numRows, m_numCols, m_elemSizeAllocated, m_blockSize,
                m_sliceViewOffset, deviceSecondaryIndex, sizeofElemType>>
callVars == <<op, args, ret, fetches, cachedBefore>>
vars == <<m_format, m_numRows, m_numCols, m_elemSizeAllocated, m_blockSize,
          m_sliceViewOffset, m_cachedNzCount, deviceSecondaryIndex, sizeofElemType,
          op, args, ret, fetches, cachedBefore>>

----------------------------------------------------------------------------
\* Bounds of the model.
MaxDim == 2
MaxNz == 1
MaxBufferSize == 40
SizeTBits == 16

----------------------------------------------------------------------------
\* MatrixFormat tags.
matrixFormatSparseCSC == "SparseCSC"
matrixFormatSparseCSR == "SparseCSR"
matrixFormatSparseBlockCol == "SparseBlockCol"
matrixFormatSparseBlockRow == "SparseBlockRow"
\* a tag that is none of the four sparse layouts (a dense tag, "COO")
matrixFormatDense == "Dense"

MatrixFormat == {matrixFormatSparseCSC, matrixFormatSparseCSR, matrixFormatSparseBlockCol,
                 matrixFormatSparseBlockRow, matrixFormatDense}

\* GetFormat() & matrixFormatRowMajor
IsRowMajor(format) == format \in {matrixFormatSparseCSR, matrixFormatSparseBlockRow}

\* sizeof(GPUSPARSE_INDEX_TYPE)
sizeofIndexType == 4
\* sizeof(ElemType) of the float and of the double instantiation
ElemSizes == {4, 8}

INVALID_NZ_COUNT == -1

\* size_t arithmetic wraps; the width is scaled down from 64 bits
SizeTModulus == 2 ^ SizeTBits
SizeT(x) == x % SizeTModulus

\* How a call ends: with a value, with nothing (void), or in a fault.
Ok(v) == [outcome |-> "ok", value |-> v]
Void == [outcome |-> "ok"]
Fault(kind) == [outcome |-> kind]
NOT_IMPLEMENTED == Fault("NotImplemented")
AssertionFailed == Fault("AssertionFailed")
LogicError == Fault("LogicError")
NoArgs == [none |-> TRUE]

\* What a member function did: what it returned, the m_cachedNzCount it left and
\* the number of FetchNzCount() calls it made.
Res(r, cached, n) == [ret |-> r, cached |-> cached, fetches |-> n]

\* *this, as the const member functions read it
This == [format |-> m_format, numRows |-> m_numRows, numCols |-> m_numCols,
         sizeAllocated |-> m_elemSizeAllocated, blockSize |-> m_blockSize,
         sliceViewOffset |-> m_sliceViewOffset,
         secondaryIndex |-> deviceSecondaryIndex]

IsCSCOrCSR(format) == format \in {matrixFormatSparseCSC, matrixFormatSparseCSR}
IsBlockFormat(format) == format \in {matrixFormatSparseBlockCol, matrixFormatSparseBlockRow}

----------------------------------------------------------------------------
\* Layout arithmetic.  Locations are byte offsets from Buffer().

MajorIndexLocation(m) == sizeofElemType * m.sizeAllocated

SecondaryIndexLocationNoSliceView(m) ==
    IF m.format = matrixFormatSparseBlockCol
    THEN MajorIndexLocation(m) + sizeofIndexType * m.numCols
    ELSE IF m.format = matrixFormatSparseBlockRow
    THEN MajorIndexLocation(m) + sizeofIndexType * m.numRows
    ELSE (sizeofElemType + sizeofIndexType) * m.sizeAllocated

SecondaryIndexLocationBlockColByRows(m) ==
    IF m.format = matrixFormatSparseBlockCol
    THEN MajorIndexLocation(m) + sizeofIndexType * m.numRows
    ELSE IF m.format = matrixFormatSparseBlockRow
    THEN MajorIndexLocation(m) + sizeofIndexType * m.numRows
    ELSE sizeofIndexType * m.sliceViewOffset
         + (sizeofElemType + sizeofIndexType) * m.sizeAllocated

SecondaryIndexLocation(m) ==
    IF m.format = matrixFormatSparseBlockCol
    THEN MajorIndexLocation(m) + sizeofIndexType * m.numCols
    ELSE IF m.format = matrixFormatSparseBlockRow
    THEN MajorIndexLocation(m) + sizeofIndexType * m.numRows
    ELSE sizeofIndexType * m.sliceViewOffset
         + (sizeofElemType + sizeofIndexType) * m.sizeAllocated

\* reads the device: element idx of the array at SecondaryIndexLocation()
SecondaryIndexValueAt(m, idx) == m.secondaryIndex[m.sliceViewOffset + idx]

Data(m) ==
    sizeofElemType * (IF IsCSCOrCSR(m.format) THEN SecondaryIndexValueAt(m, 0) ELSE 0)

NzValues(m) == Data(m)

MajorIndexLocationWithSliceViewOffset(m) == Data(m) + sizeofElemType * m.sizeAllocated

MajorIndexCount(numRows, numCols, numNZ, format) ==
    IF format = matrixFormatSparseBlockCol THEN numCols
    ELSE IF format = matrixFormatSparseBlockRow THEN numRows
    ELSE numNZ

SecondaryIndexCountRowsForCols(numRows, numCols, numNZReserved, format) ==
    IF format = matrixFormatSparseBlockCol THEN numCols
    ELSE IF format = matrixFormatSparseBlockRow THEN numRows
    ELSE IF format = matrixFormatSparseCSC THEN SizeT(numRows + 1)
    ELSE IF format = matrixFormatSparseCSR THEN SizeT(numCols + 1)
    ELSE numNZReserved

SecondaryIndexCount(numRows, numCols, numNZReserved, format) ==
    IF format = matrixFormatSparseBlockCol THEN numCols
    ELSE IF format = matrixFormatSparseBlockRow THEN numRows
    ELSE IF format = matrixFormatSparseCSC THEN SizeT(numCols + 1)
    ELSE IF format = matrixFormatSparseCSR THEN SizeT(numRows + 1)
    ELSE numNZReserved

BufferSizeNeeded(numRows, numCols, numNZ, format) ==
    SizeT(SizeT(sizeofElemType * numNZ)
          + SizeT(sizeofIndexType * SizeT(MajorIndexCount(numRows, numCols, numNZ, format)
                                          + SecondaryIndexCount(numRows, numCols, numNZ, format))))

ComputeMaxNZElemNoFault(numRows, numCols, bufferSize, format) ==
    IF format = matrixFormatSparseBlockCol
    THEN Ok(SizeT(bufferSize - SizeT(2 * sizeofIndexType * numCols)) \div sizeofElemType)
    ELSE IF format = matrixFormatSparseBlockRow
    THEN Ok(SizeT(bufferSize - SizeT(2 * sizeofIndexType * numRows)) \div sizeofElemType)
    ELSE IF format = matrixFormatSparseCSC
    THEN Ok(SizeT(bufferSize - SizeT(sizeofIndexType * SizeT(numCols + 1)))
            \div (sizeofIndexType + sizeofElemType))
    ELSE Ok(SizeT(bufferSize - SizeT(sizeofIndexType * SizeT(numRows + 1)))
            \div (sizeofIndexType + sizeofElemType))

ComputeMaxNZElemFromBufferSize(numRows, numCols, bufferSize, format) ==
    IF format = matrixFormatSparseBlockCol
    THEN Ok(SizeT(bufferSize - SizeT(2 * sizeofIndexType * numCols)) \div sizeofElemType)
    ELSE IF format = matrixFormatSparseBlockRow
    THEN Ok(SizeT(bufferSize - SizeT(2 * sizeofIndexType * numRows)) \div sizeofElemType)
    ELSE IF format = matrixFormatSparseCSC
    THEN Ok(SizeT(bufferSize - SizeT(sizeofIndexType * SizeT(numCols + 1)))
            \div (sizeofIndexType + sizeofElemType))
    ELSE IF format = matrixFormatSparseCSR
    THEN Ok(SizeT(bufferSize - SizeT(sizeofIndexType * SizeT(numRows + 1)))
            \div (sizeofIndexType + sizeofElemType))
    ELSE NOT_IMPLEMENTED

\* SecondaryIndexCount() and SecondaryIndexSize() of *this
SecondaryIndexCountThis(m) ==
    SecondaryIndexCount(m.numRows, m.numCols, m.sizeAllocated, m.format)

SecondaryIndexSize(m) == SizeT(SecondaryIndexCountThis(m) * sizeofIndexType)

----------------------------------------------------------------------------
\* The nz-count cache.

FetchNzCountColsTimesBlockSize(m) ==
    IF m.format = matrixFormatSparseCSC
    THEN Ok(SecondaryIndexValueAt(m, m.numCols) - SecondaryIndexValueAt(m, 0))
    ELSE IF m.format = matrixFormatSparseCSR
    THEN Ok(SecondaryIndexValueAt(m, m.numRows) - SecondaryIndexValueAt(m, 0))
    ELSE IF m.format = matrixFormatSparseBlockCol
    THEN Ok(m.numCols * m.blockSize)
    ELSE NOT_IMPLEMENTED

FetchNzCountFromBufferStart(m) ==
    IF m.format = matrixFormatSparseCSC
    THEN Ok(SecondaryIndexValueAt(m, m.numCols))
    ELSE IF m.format = matrixFormatSparseCSR
    THEN Ok(SecondaryIndexValueAt(m, m.numRows))
    ELSE IF m.format = matrixFormatSparseBlockCol
    THEN Ok(m.numRows * m.blockSize)
    ELSE NOT_IMPLEMENTED

FetchNzCount(m) ==
    IF m.format = matrixFormatSparseCSC
    THEN Ok(SecondaryIndexValueAt(m, m.numCols) - SecondaryIndexValueAt(m, 0))
    ELSE IF m.format = matrixFormatSparseCSR
    THEN Ok(SecondaryIndexValueAt(m, m.numRows) - SecondaryIndexValueAt(m, 0))
    ELSE IF m.format = matrixFormatSparseBlockCol
    THEN Ok(m.numRows * m.blockSize)
    ELSE NOT_IMPLEMENTED

HasCachedNzCount(cached) == cached # INVALID_NZ_COUNT

NzCountInvertedTest(m, cached) ==
    IF HasCachedNzCount(cached)
    THEN LET fetched == FetchNzCount(m) IN
         IF fetched.outcome = "ok"
         THEN Res(Ok(fetched.value), fetched.value, 1)
         ELSE Res(fetched, cached, 1)
    ELSE Res(Ok(cached), cached, 0)

NzCountAlwaysFetches(m, cached) ==
    LET fetched == FetchNzCount(m) IN
    IF fetched.outcome = "ok"
    THEN Res(Ok(fetched.value), fetched.value, 1)
    ELSE Res(fetched, cached, 1)

NzCount(m, cached) ==
    IF ~HasCachedNzCount(cached)
    THEN LET fetched == FetchNzCount(m) IN
         IF fetched.outcome = "ok"
         THEN Res(Ok(fetched.value), fetched.value, 1)
         ELSE Res(fetched, cached, 1)
    ELSE Res(Ok(cached), cached, 0)

InvalidateToZero(m, cached) == Res(Void, 0, 0)

InvalidateCachedNzCount(m, cached) == Res(Void, INVALID_NZ_COUNT, 0)

\* the "#else" branch of VerifyCachedNzCount()
VerifyCachedNzCountEnabled(m, cached, nzCount) ==
    LET fetched == FetchNzCount(m) IN
    IF fetched.outcome # "ok" THEN Res(fetched, cached, 1)
    ELSE IF fetched.value # nzCount THEN Res(LogicError, cached, 1)
    ELSE Res(Void, cached, 1)

\* the "#if 1" branch, which only names its argument
VerifyCachedNzCount(m, cached, nzCount) == Res(Void, cached, 0)

UpdateOnlyWhenInvalid(m, cached, nzCount, shouldVerify) ==
    IF HasCachedNzCount(cached) THEN Res(Void, cached, 0) ELSE Res(Void, nzCount, 0)

UpdateCachedNzCount(m, cached, nzCount, shouldVerify) ==
    IF shouldVerify
    THEN VerifyCachedNzCount(m, nzCount, nzCount)
    ELSE Res(Void, nzCount, 0)

----------------------------------------------------------------------------
\* Accessors that go through NzCount().

\* MajorIndexCount() of *this; a fault of NzCount() passes through
MajorIndexCountThisDropsCache(m, cached) ==
    LET nz == NzCount(m, cached) IN
    IF nz.ret.outcome = "ok"
    THEN Res(Ok(MajorIndexCount(m.numRows, m.numCols, SizeT(nz.ret.value), m.format)),
             INVALID_NZ_COUNT, nz.fetches)
    ELSE nz

MajorIndexCountThis(m, cached) ==
    LET nz == NzCount(m, cached) IN
    IF nz.ret.outcome = "ok"
    THEN Res(Ok(MajorIndexCount(m.numRows, m.numCols, SizeT(nz.ret.value), m.format)),
             nz.cached, nz.fetches)
    ELSE nz

MajorIndexSize(m, cached) ==
    LET count == MajorIndexCountThis(m, cached) IN
    IF count.ret.outcome = "ok"
    THEN Res(Ok(SizeT(sizeofIndexType * count.ret.value)), count.cached, count.fetches)
    ELSE count

\* (size_t) of what NzCount() returned
GetNumNZElementsIsNumElemAllocated(m, cached) ==
    LET nz == NzCount(m, cached) IN
    IF nz.ret.outcome = "ok"
    THEN Res(Ok(SizeT(m.sizeAllocated)), nz.cached, nz.fetches)
    ELSE nz

GetNumNZElements(m, cached) ==
    LET nz == NzCount(m, cached) IN
    IF nz.ret.outcome = "ok"
    THEN Res(Ok(SizeT(nz.ret.value)), nz.cached, nz.fetches)
    ELSE nz

NzBytes(m, cached) ==
    LET nz == NzCount(m, cached) IN
    IF nz.ret.outcome = "ok"
    THEN Res(Ok(SizeT(sizeofElemType * SizeT(nz.ret.value))), nz.cached, nz.fetches)
    ELSE nz

\* The significand of ElemType: 24 binary digits for float and 53 for double
\* beside a 64-bit size_t, scaled down with the width of size_t.
ElemTypeDigits ==
    IF sizeofElemType = 4 THEN (24 * SizeTBits) \div 64 ELSE (53 * SizeTBits) \div 64

\* (ElemType) x for a size_t x: the nearest value with ElemTypeDigits
\* significant digits, ties to even
ToElemType(x) ==
    LET p == 2 ^ ElemTypeDigits
        ulp == CHOOSE u \in {2 ^ k : k \in 0..SizeTBits} :
                   x < p * u /\ (u = 1 \/ x >= p * (u \div 2))
        q == x \div ulp
        r == x % ulp
    IN  IF 2 * r > ulp \/ (2 * r = ulp /\ q % 2 = 1) THEN (q + 1) * ulp ELSE q * ulp

MatrixNorm0(m, cached) ==
    LET nz == GetNumNZElements(m, cached) IN
    IF nz.ret.outcome = "ok"
    THEN Res(Ok(ToElemType(nz.ret.value)), nz.cached, nz.fetches)
    ELSE nz

----------------------------------------------------------------------------
\* Format-restricted accessors (assertions enabled).

RowLocation(m) ==
    IF ~IsCSCOrCSR(m.format) THEN AssertionFailed
    ELSE Ok(IF IsRowMajor(m.format) THEN SecondaryIndexLocation(m) ELSE MajorIndexLocation(m))

RowSizeNotSwapped(m, cached) ==
    IF ~IsCSCOrCSR(m.format) THEN Res(AssertionFailed, cached, 0)
    ELSE IF IsRowMajor(m.format) THEN MajorIndexSize(m, cached)
    ELSE Res(Ok(SecondaryIndexSize(m)), cached, 0)

RowSize(m, cached) ==
    IF ~IsCSCOrCSR(m.format) THEN Res(AssertionFailed, cached, 0)
    ELSE IF IsRowMajor(m.format) THEN Res(Ok(SecondaryIndexSize(m)), cached, 0)
    ELSE MajorIndexSize(m, cached)

ColLocationAssertsCSCOnly(m) ==
    IF m.format # matrixFormatSparseCSC THEN AssertionFailed
    ELSE Ok(SecondaryIndexLocation(m))

ColLocation(m) ==
    IF ~IsCSCOrCSR(m.format) THEN AssertionFailed
    ELSE Ok(IF IsRowMajor(m.format) THEN MajorIndexLocation(m) ELSE SecondaryIndexLocation(m))

ColSize(m, cached) ==
    IF ~IsCSCOrCSR(m.format) THEN Res(AssertionFailed, cached, 0)
    ELSE IF IsRowMajor(m.format) THEN MajorIndexSize(m, cached)
    ELSE Res(Ok(SecondaryIndexSize(m)), cached, 0)

BlockId2ColOrRow(m) ==
    IF ~IsBlockFormat(m.format) THEN AssertionFailed ELSE Ok(MajorIndexLocation(m))

ColOrRow2BlockId(m) ==
    IF ~IsBlockFormat(m.format) THEN AssertionFailed ELSE Ok(SecondaryIndexLocation(m))

----------------------------------------------------------------------------
\* States of a matrix.

\* Well-formed device contents: a non-decreasing secondary index within the
\* reserved slots (CSC/CSR), stored blocks within the reserved slots (block formats).
SecondaryIndexArrays(sizeAllocated) ==
    {f \in [0..MaxDim -> 0..sizeAllocated] : \A i \in 0..(MaxDim - 1) : f[i] <= f[i + 1]}

ZeroIndexArray == [i \in 0..MaxDim |-> 0]

\* the length, less one, of the secondary index a CSC/CSR matrix reads
Extent(format, numRows, numCols) ==
    IF format = matrixFormatSparseCSC THEN numCols ELSE numRows

BlockSizes(numRows, sizeAllocated) ==
    {b \in 0..MaxDim : numRows * b <= sizeAllocated}

\* A matrix brought to some shape and contents; a slice view reads inside the
\* secondary index of its parent.
Init ==
    /\ m_format \in MatrixFormat
    /\ m_numRows \in 1..MaxDim
    /\ m_numCols \in 1..MaxDim
    /\ m_elemSizeAllocated \in 0..MaxNz
    /\ sizeofElemType \in ElemSizes
    /\ IF IsCSCOrCSR(m_format)
       THEN /\ m_sliceViewOffset \in 0..(MaxDim - Extent(m_format, m_numRows, m_numCols))
            /\ deviceSecondaryIndex \in SecondaryIndexArrays(m_elemSizeAllocated)
            /\ m_blockSize = 0
       ELSE /\ m_sliceViewOffset = 0
            /\ deviceSecondaryIndex = ZeroIndexArray
            /\ m_blockSize \in BlockSizes(m_numRows, m_elemSizeAllocated)
    /\ m_cachedNzCount = INVALID_NZ_COUNT
    /\ op = "constructed" /\ args = NoArgs /\ ret = Void /\ fetches = 0
    /\ cachedBefore = INVALID_NZ_COUNT

----------------------------------------------------------------------------
\* Calls.

\* the member function called took arguments a and did res
Call(a, res) ==
    /\ args' = a /\ cachedBefore' = m_cachedNzCount
    /\ ret' = res.ret /\ m_cachedNzCount' = res.cached /\ fetches' = res.fetches
    /\ UNCHANGED matrixVars

\* what a const function that never touches the cache did
Const(r) == Res(r, m_cachedNzCount, 0)

\* the values a caller passes as nzCount
NzCountArgs == (-2)..(MaxNz + 1)

CallNzCount ==
    /\ op' = "NzCount"
    /\ Call(NoArgs, NzCount(This, m_cachedNzCount))

CallInvalidateCachedNzCount ==
    /\ op' = "InvalidateCachedNzCount"
    /\ Call(NoArgs, InvalidateCachedNzCount(This, m_cachedNzCount))

CallUpdateCachedNzCount ==
    \E nzCount \in NzCountArgs, shouldVerify \in BOOLEAN :
        /\ op' = "UpdateCachedNzCount"
        /\ Call([nzCount |-> nzCount, shouldVerify |-> shouldVerify],
                UpdateCachedNzCount(This, m_cachedNzCount, nzCount, shouldVerify))

CallVerifyCachedNzCount ==
    \E nzCount \in NzCountArgs :
        /\ op' = "VerifyCachedNzCount"
        /\ Call([nzCount |-> nzCount],
                VerifyCachedNzCount(This, m_cachedNzCount, nzCount))

\* A device-side operation rewrites the non-zero set and leaves the cache alone.
DeviceWrite ==
    /\ op' = "DeviceWrite" /\ args' = NoArgs /\ cachedBefore' = m_cachedNzCount
    /\ ret' = Void /\ fetches' = 0
    /\ IF IsCSCOrCSR(m_format)
       THEN /\ deviceSecondaryIndex' \in SecondaryIndexArrays(m_elemSizeAllocated)
            /\ m_blockSize' = m_blockSize
       ELSE /\ deviceSecondaryIndex' = deviceSecondaryIndex
            /\ m_blockSize' \in BlockSizes(m_numRows, m_elemSizeAllocated)
    /\ UNCHANGED <<m_format, m_numRows, m_numCols, m_elemSizeAllocated, m_sliceViewOffset,
                   sizeofElemType, m_cachedNzCount>>

CallData ==
    /\ op' = "Data"
    /\ Call(NoArgs, Const(Ok(Data(This))))

CallNzValues ==
    /\ op' = "NzValues"
    /\ Call(NoArgs, Const(Ok(NzValues(This))))

CallMajorIndexLocation ==
    /\ op' = "MajorIndexLocation"
    /\ Call(NoArgs, Const(Ok(MajorIndexLocation(This))))

CallMajorIndexLocationWithSliceViewOffset ==
    /\ op' = "MajorIndexLocationWithSliceViewOffset"
    /\ Call(NoArgs, Const(Ok(MajorIndexLocationWithSliceViewOffset(This))))

CallSecondaryIndexLocation ==
    /\ op' = "SecondaryIndexLocation"
    /\ Call(NoArgs, Const(Ok(SecondaryIndexLocation(This))))

CallRowLocation ==
    /\ op' = "RowLocation"
    /\ Call(NoArgs, Const(RowLocation(This)))

CallRowSize ==
    /\ op' = "RowSize"
    /\ Call(NoArgs, RowSize(This, m_cachedNzCount))

CallColLocation ==
    /\ op' = "ColLocation"
    /\ Call(NoArgs, Const(ColLocation(This)))

CallColSize ==
    /\ op' = "ColSize"
    /\ Call(NoArgs, ColSize(This, m_cachedNzCount))

CallBlockId2ColOrRow ==
    /\ op' = "BlockId2ColOrRow"
    /\ Call(NoArgs, Const(BlockId2ColOrRow(This)))

CallColOrRow2BlockId ==
    /\ op' = "ColOrRow2BlockId"
    /\ Call(NoArgs, Const(ColOrRow2BlockId(This)))

\* the cache and the device
Next ==
    \/ CallNzCount
    \/ CallInvalidateCachedNzCount
    \/ CallUpdateCachedNzCount
    \/ CallVerifyCachedNzCount
    \/ DeviceWrite

Spec == Init /\ [][Next]_vars

\* the locations and the format-restricted accessors
NextLayout ==
    \/ CallData
    \/ CallNzValues
    \/ CallMajorIndexLocation
    \/ CallMajorIndexLocationWithSliceViewOffset
    \/ CallSecondaryIndexLocation
    \/ CallRowLocation
    \/ CallRowSize
    \/ CallColLocation
    \/ CallColSize
    \/ CallBlockId2ColOrRow
    \/ CallColOrRow2BlockId

LayoutSpec == Init /\ [][NextLayout]_vars

CallGetNumNZElements ==
    /\ op' = "GetNumNZElements"
    /\ Call(NoArgs, GetNumNZElements(This, m_cachedNzCount))

CallNzBytes ==
    /\ op' = "NzBytes"
    /\ Call(NoArgs, NzBytes(This, m_cachedNzCount))

CallMatrixNorm0 ==
    /\ op' = "MatrixNorm0"
    /\ Call(NoArgs, MatrixNorm0(This, m_cachedNzCount))

\* MajorIndexCount() with no arguments
CallMajorIndexCountThis ==
    /\ op' = "MajorIndexCount()"
    /\ Call(NoArgs, MajorIndexCountThis(This, m_cachedNzCount))

CallMajorIndexSize ==
    /\ op' = "MajorIndexSize"
    /\ Call(NoArgs, MajorIndexSize(This, m_cachedNzCount))

\* the cache, the device and the accessors that read the count
NextCount ==
    \/ CallNzCount
    \/ CallInvalidateCachedNzCount
    \/ CallUpdateCachedNzCount
    \/ CallVerifyCachedNzCount
    \/ DeviceWrite
    \/ CallGetNumNZElements
    \/ CallNzBytes
    \/ CallMatrixNorm0
    \/ CallMajorIndexCountThis
    \/ CallMajorIndexSize
    \/ CallRowSize
    \/ CallColSize

CountSpec == Init /\ [][NextCount]_vars

----------------------------------------------------------------------------
\* The size computations: one call, on a matrix as constructed, with the
\* arguments the caller has chosen.

SizeArgs ==
    [numRows : 0..MaxDim, numCols : 0..MaxDim, n : 0..MaxBufferSize, format : MatrixFormat]

\* GPUSparseMatrix(computeDevice, matrixFormat = matrixFormatSparseCSR)
InitSize ==
    /\ m_format = matrixFormatSparseCSR
    /\ m_numRows = 0 /\ m_numCols = 0 /\ m_elemSizeAllocated = 0
    /\ m_blockSize = 0 /\ m_sliceViewOffset = 0
    /\ deviceSecondaryIndex = ZeroIndexArray
    /\ sizeofElemType \in ElemSizes
    /\ m_cachedNzCount = INVALID_NZ_COUNT
    /\ op = "constructed" /\ args \in SizeArgs /\ ret = Void /\ fetches = 0
    /\ cachedBefore = INVALID_NZ_COUNT

CallBufferSizeNeeded ==
    /\ op = "constructed"
    /\ op' = "BufferSizeNeeded"
    /\ Call(args,
            Const(Ok(BufferSizeNeeded(args.numRows, args.numCols, args.n, args.format))))

CallMajorIndexCount ==
    /\ op = "constructed"
    /\ op' = "MajorIndexCount"
    /\ Call(args,
            Const(Ok(MajorIndexCount(args.numRows, args.numCols, args.n, args.format))))

CallSecondaryIndexCount ==
    /\ op = "constructed"
    /\ op' = "SecondaryIndexCount"
    /\ Call(args,
            Const(Ok(SecondaryIndexCount(args.numRows, args.numCols, args.n, args.format))))

CallComputeMaxNZElemFromBufferSize ==
    /\ op = "constructed"
    /\ op' = "ComputeMaxNZElemFromBufferSize"
    /\ Call(args,
            Const(ComputeMaxNZElemFromBufferSize(args.numRows, args.numCols, args.n,
                                                 args.format)))

NextSize ==
    \/ CallBufferSizeNeeded
    \/ CallMajorIndexCount
    \/ CallSecondaryIndexCount
    \/ CallComputeMaxNZElemFromBufferSize

SizeSpec == InitSize /\ [][NextSize]_vars

----------------------------------------------------------------------------
\* Properties of the nz-count cache.

\* the formats FetchNzCount() has a branch for
FetchableFormats == {matrixFormatSparseCSC, matrixFormatSparseCSR, matrixFormatSparseBlockCol}

\* the cache holds nothing, or holds what the device holds
CacheInSync ==
    \/ ~HasCachedNzCount(m_cachedNzCount)
    \/ /\ FetchNzCount(This).outcome = "ok"
       /\ m_cachedNzCount = FetchNzCount(This).value

C2_InvalidCacheBecomesValid ==
    (op = "NzCount" /\ cachedBefore = INVALID_NZ_COUNT)
        => /\ fetches = 1 /\ ret.outcome = "ok"
           /\ HasCachedNzCount(m_cachedNzCount) /\ m_cachedNzCount = ret.value

\* C2 (amended): as stated on a CSC, CSR or SparseBlockCol matrix; on any other
\* format NzCount() on an Invalid cache ends in the fetch's "not implemented"
\* fault and the cache stays Invalid.  A second NzCount() right after one that
\* returned makes no fetch and returns the same value.
C2_TwoStateCache ==
    [][ /\ op' = "NzCount" =>
             IF HasCachedNzCount(m_cachedNzCount)
             THEN /\ fetches' = 0 /\ ret' = Ok(m_cachedNzCount)
                  /\ m_cachedNzCount' = m_cachedNzCount
             ELSE /\ fetches' = 1
                  /\ IF m_format \in FetchableFormats
                     THEN /\ ret' = FetchNzCount(This) /\ ret'.outcome = "ok"
                          /\ m_cachedNzCount' = ret'.value /\ HasCachedNzCount(m_cachedNzCount')
                     ELSE ret' = NOT_IMPLEMENTED /\ ~HasCachedNzCount(m_cachedNzCount')
        /\ (op = "NzCount" /\ ret.outcome = "ok" /\ op' = "NzCount")
             => (fetches' = 0 /\ ret' = ret) ]_vars

\* NzCount() answered from a Valid cache
C2_Witness ==
    /\ op = "NzCount" /\ fetches = 0 /\ cachedBefore # INVALID_NZ_COUNT
    /\ ret = Ok(cachedBefore) /\ m_cachedNzCount = cachedBefore

\* C3: InvalidateCachedNzCount() leaves HasCachedNzCount() false from any cache
\* state, a device write does not touch the cache, and NzCount() on an Invalid
\* cache of a CSC, CSR or SparseBlockCol matrix returns the count fetched at that
\* call, not the value the cache held before.
C3_InvalidateThenNzCountIsFresh ==
    [][ /\ op' = "InvalidateCachedNzCount" => ~HasCachedNzCount(m_cachedNzCount')
        /\ op' = "DeviceWrite" => m_cachedNzCount' = m_cachedNzCount
        /\ (op' = "NzCount" /\ ~HasCachedNzCount(m_cachedNzCount) /\ m_format \in FetchableFormats)
             => (ret' = FetchNzCount(This') /\ fetches' = 1) ]_vars

\* a Valid cache that disagreed with the device has just been invalidated
C3_Witness ==
    /\ op = "InvalidateCachedNzCount" /\ ~HasCachedNzCount(m_cachedNzCount)
    /\ cachedBefore # INVALID_NZ_COUNT
    /\ m_format \in FetchableFormats
    /\ Ok(cachedBefore) # FetchNzCount(This)

\* C4 (as stated): after UpdateCachedNzCount(n, verify) the cache is Valid(n),
\* for every n.
C4_UpdateAlwaysValid ==
    op = "UpdateCachedNzCount" => (HasCachedNzCount(m_cachedNzCount) /\ m_cachedNzCount = args.nzCount)

\* C4 (amended): for every n other than INVALID_NZ_COUNT (-1), after
\* UpdateCachedNzCount(n, verify) HasCachedNzCount() is true and the next
\* NzCount() returns n without a fetch, whatever the cache held before; with
\* n = INVALID_NZ_COUNT the cache is left Invalid.
C4_UpdateSetsValidUnlessSentinel ==
    [][ /\ op' = "UpdateCachedNzCount" =>
             /\ m_cachedNzCount' = args'.nzCount
             /\ HasCachedNzCount(m_cachedNzCount') <=> (args'.nzCount # INVALID_NZ_COUNT)
        /\ (op = "UpdateCachedNzCount" /\ args.nzCount # INVALID_NZ_COUNT /\ op' = "NzCount")
             => (ret' = Ok(args.nzCount) /\ fetches' = 0) ]_vars

\* the update replaced a different Valid value
C4_Witness ==
    /\ op = "UpdateCachedNzCount" /\ args.nzCount # INVALID_NZ_COUNT
    /\ cachedBefore # INVALID_NZ_COUNT /\ cachedBefore # args.nzCount
    /\ HasCachedNzCount(m_cachedNzCount) /\ m_cachedNzCount = args.nzCount

\* verification was asked for and the device's count is not the argument
VerificationMismatch ==
    /\ \/ op = "UpdateCachedNzCount" /\ args.shouldVerify
       \/ op = "VerifyCachedNzCount"
    /\ FetchNzCount(This).outcome = "ok"
    /\ FetchNzCount(This).value # args.nzCount

\* C5 (as stated): a verified update or VerifyCachedNzCount(n) whose n differs
\* from the device's count ends in a logic error.
C5_MismatchIsLogicError ==
    VerificationMismatch => ret.outcome = "LogicError"

\* C5 (amended): with the verification branch compiled out, as it is in the
\* source, UpdateCachedNzCount(n, verify) and VerifyCachedNzCount(n) make no
\* fetch and raise no error, whether or not verification is asked for and
\* whether or not n is the device's count.
C5_NoFetchNoErrorEvenWhenVerifying ==
    op \in {"UpdateCachedNzCount", "VerifyCachedNzCount"}
        => (ret.outcome = "ok" /\ fetches = 0)

C5_Witness ==
    /\ VerificationMismatch /\ op = "UpdateCachedNzCount"
    /\ ret.outcome = "ok" /\ fetches = 0 /\ m_cachedNzCount = args.nzCount

----------------------------------------------------------------------------
\* Properties of the size computations and of the accessors.

SupportedFormats == {matrixFormatSparseCSR, matrixFormatSparseCSC,
                     matrixFormatSparseBlockCol, matrixFormatSparseBlockRow}

SizeOps == {"BufferSizeNeeded", "MajorIndexCount", "SecondaryIndexCount",
            "ComputeMaxNZElemFromBufferSize"}

\* the index lengths of the four layouts, as tabulated
TableMajorCount(a) ==
    CASE a.format = matrixFormatSparseCSR -> a.n
      [] a.format = matrixFormatSparseCSC -> a.n
      [] a.format = matrixFormatSparseBlockCol -> a.numCols
      [] a.format = matrixFormatSparseBlockRow -> a.numRows

TableSecondaryCount(a) ==
    CASE a.format = matrixFormatSparseCSR -> a.numRows + 1
      [] a.format = matrixFormatSparseCSC -> a.numCols + 1
      [] a.format = matrixFormatSparseBlockCol -> a.numCols
      [] a.format = matrixFormatSparseBlockRow -> a.numRows

\* C7: for each of the four layouts BufferSizeNeeded(rows, cols, nnz, format) is
\* sizeof(value)*nnz + sizeof(index)*(majorCount + secondaryCount), with the
\* counts MajorIndexCount and SecondaryIndexCount return being nnz | numCols |
\* numRows and numRows+1 | numCols+1 | numCols | numRows.
C7_BufferSizeNeededFormula ==
    (op \in SizeOps /\ args.format \in SupportedFormats) =>
        /\ op = "BufferSizeNeeded" =>
             ret = Ok(sizeofElemType * args.n
                      + sizeofIndexType * (TableMajorCount(args) + TableSecondaryCount(args)))
        /\ op = "MajorIndexCount" => ret = Ok(TableMajorCount(args))
        /\ op = "SecondaryIndexCount" => ret = Ok(TableSecondaryCount(args))

C7_Witness ==
    /\ op = "BufferSizeNeeded" /\ args.format = matrixFormatSparseCSC
    /\ args.n = 2 /\ args.numRows = 2 /\ args.numCols = 1
    /\ ret = Ok(2 * sizeofElemType + 4 * sizeofIndexType)

\* C8 (as stated): every size computation called with a format outside the four
\* layouts ends in a "not implemented" fault.
C8_UnsupportedFormatFaults ==
    (op \in SizeOps /\ args.format \notin SupportedFormats) => ret = NOT_IMPLEMENTED

\* C8 (amended): of the size computations only ComputeMaxNZElemFromBufferSize
\* ends in a "not implemented" fault on a format outside the four layouts, and
\* it does so on no other format; for such a format MajorIndexCount and
\* SecondaryIndexCount return the nnz they were given and BufferSizeNeeded
\* returns (sizeof(value) + 2*sizeof(index)) * nnz.
C8_OnlyComputeMaxNZFaults ==
    op \in SizeOps =>
        /\ op = "ComputeMaxNZElemFromBufferSize" =>
             (ret = NOT_IMPLEMENTED <=> args.format \notin SupportedFormats)
        /\ (op = "MajorIndexCount" /\ args.format \notin SupportedFormats)
             => ret = Ok(args.n)
        /\ (op = "SecondaryIndexCount" /\ args.format \notin SupportedFormats)
             => ret = Ok(args.n)
        /\ (op = "BufferSizeNeeded" /\ args.format \notin SupportedFormats)
             => ret = Ok((sizeofElemType + 2 * sizeofIndexType) * args.n)

C8_Witness ==
    /\ op = "ComputeMaxNZElemFromBufferSize" /\ args.format = matrixFormatDense
    /\ args.n > 0 /\ ret = NOT_IMPLEMENTED

\* C9: RowLocation, RowSize, ColLocation and ColSize fail their assertion exactly
\* when the format is neither CSR nor CSC; BlockId2ColOrRow and ColOrRow2BlockId
\* fail theirs exactly when it is neither SparseBlockCol nor SparseBlockRow.
C9_AccessorAssertions ==
    /\ op \in {"RowLocation", "RowSize", "ColLocation", "ColSize"} =>
         (ret = AssertionFailed
            <=> m_format \notin {matrixFormatSparseCSR, matrixFormatSparseCSC})
    /\ op \in {"BlockId2ColOrRow", "ColOrRow2BlockId"} =>
         (ret = AssertionFailed
            <=> m_format \notin {matrixFormatSparseBlockCol, matrixFormatSparseBlockRow})

C9_Witness ==
    /\ op = "ColLocation" /\ m_format = matrixFormatSparseBlockRow
    /\ ret = AssertionFailed

\* *this with no slice-view offset, all else equal
ThisAtOffset0 == [This EXCEPT !.sliceViewOffset = 0]

\* C10 (as stated): on a CSR/CSC matrix the slice-view offset moves what
\* SecondaryIndexLocation() returns by that many index slots and leaves what
\* Data(), NzValues() and MajorIndexLocation() return as it is with offset 0.
C10_OffsetMovesOnlySecondaryIndex ==
    IsCSCOrCSR(m_format) =>
        /\ op = "SecondaryIndexLocation" =>
             ret = Ok(SecondaryIndexLocation(ThisAtOffset0)
                      + sizeofIndexType * m_sliceViewOffset)
        /\ op = "MajorIndexLocation" => ret = Ok(MajorIndexLocation(ThisAtOffset0))
        /\ op = "Data" => ret = Ok(Data(ThisAtOffset0))
        /\ op = "NzValues" => ret = Ok(NzValues(ThisAtOffset0))

\* the values stored before the slice
ValuesBeforeSlice == deviceSecondaryIndex[m_sliceViewOffset] - deviceSecondaryIndex[0]

\* C10 (amended): on a CSR/CSC matrix the slice-view offset moves what
\* SecondaryIndexLocation() returns by that many index slots and leaves what
\* MajorIndexLocation() returns as it is with offset 0; Data() and NzValues()
\* return Buffer() + secondaryIndex[offset], so they move by the number of
\* values stored before the slice, secondaryIndex[offset] - secondaryIndex[0].
C10_OffsetMovesSecondaryIndexAndData ==
    IsCSCOrCSR(m_format) =>
        /\ op = "SecondaryIndexLocation" =>
             ret = Ok(SecondaryIndexLocation(ThisAtOffset0)
                      + sizeofIndexType * m_sliceViewOffset)
        /\ op = "MajorIndexLocation" => ret = Ok(MajorIndexLocation(ThisAtOffset0))
        /\ op = "Data" =>
             ret = Ok(Data(ThisAtOffset0) + sizeofElemType * ValuesBeforeSlice)
        /\ op = "NzValues" =>
             ret = Ok(NzValues(ThisAtOffset0) + sizeofElemType * ValuesBeforeSlice)

\* a slice view past a stored value: its secondary index is one slot further on
C10_Witness ==
    /\ op = "SecondaryIndexLocation" /\ m_format = matrixFormatSparseCSC
    /\ m_sliceViewOffset = 1 /\ m_elemSizeAllocated > 0
    /\ deviceSecondaryIndex[1] > deviceSecondaryIndex[0]
    /\ ret.value = SecondaryIndexLocation(ThisAtOffset0) + sizeofIndexType
    /\ Data(This) # Data(ThisAtOffset0)

----------------------------------------------------------------------------
\* Properties of the packed buffer.

\* the length of the major index array the buffer reserves
MajorIndexReserved ==
    MajorIndexCount(m_numRows, m_numCols, m_elemSizeAllocated, m_format)

\* C11: with no slice-view offset, for every format the buffer holds the values,
\* the major index and the secondary index in that order, contiguous and
\* non-overlapping: the major index starts at sizeof(value)*sizeAllocated, the
\* secondary index starts where the major index array of its format's length
\* ends, and the secondary index ends at
\* BufferSizeNeeded(numRows, numCols, sizeAllocated, format).
C11_ValuesMajorSecondaryContiguous ==
    m_sliceViewOffset = 0 =>
        /\ op = "MajorIndexLocation" =>
             /\ ret = Ok(sizeofElemType * m_elemSizeAllocated)
             /\ ret.value >= 0
        /\ op = "SecondaryIndexLocation" =>
             /\ ret = Ok(MajorIndexLocation(This) + sizeofIndexType * MajorIndexReserved)
             /\ ret.value >= MajorIndexLocation(This)
             /\ ret.value + sizeofIndexType * SecondaryIndexCountThis(This)
                  = BufferSizeNeeded(m_numRows, m_numCols, m_elemSizeAllocated, m_format)

\* a SparseBlockCol buffer whose two index arrays have a length other than numRows
C11_Witness ==
    /\ op = "SecondaryIndexLocation" /\ m_sliceViewOffset = 0
    /\ m_format = matrixFormatSparseBlockCol /\ m_numRows # m_numCols
    /\ m_elemSizeAllocated > 0
    /\ ret = Ok(sizeofElemType * m_elemSizeAllocated + sizeofIndexType * m_numCols)

----------------------------------------------------------------------------
\* Properties of the accessors that read the count.

CountReaders == {"NzCount", "GetNumNZElements", "MatrixNorm0", "NzBytes"}

\* what NzCount() is about to return: the cached count, or the fetch on an
\* Invalid cache
Counted ==
    IF HasCachedNzCount(m_cachedNzCount) THEN Ok(m_cachedNzCount) ELSE FetchNzCount(This)

secondaryIndex(idx) == deviceSecondaryIndex[m_sliceViewOffset + idx]

\* C13: on an Invalid cache NzCount() stores and returns
\* secondaryIndex[numCols] - secondaryIndex[0] for CSC,
\* secondaryIndex[numRows] - secondaryIndex[0] for CSR and numRows * blockSize
\* for SparseBlockCol; for any other format the call ends in a "not
\* implemented" fault and the cache remains Invalid.
C13_StoredCountByFormat ==
    [][ (op' = "NzCount" /\ ~HasCachedNzCount(m_cachedNzCount)) =>
          CASE m_format = matrixFormatSparseCSC ->
                 /\ ret' = Ok(secondaryIndex(m_numCols) - secondaryIndex(0))
                 /\ m_cachedNzCount' = secondaryIndex(m_numCols) - secondaryIndex(0)
            [] m_format = matrixFormatSparseCSR ->
                 /\ ret' = Ok(secondaryIndex(m_numRows) - secondaryIndex(0))
                 /\ m_cachedNzCount' = secondaryIndex(m_numRows) - secondaryIndex(0)
            [] m_format = matrixFormatSparseBlockCol ->
                 /\ ret' = Ok(m_numRows * m_blockSize)
                 /\ m_cachedNzCount' = m_numRows * m_blockSize
            [] OTHER ->
                 /\ ret' = NOT_IMPLEMENTED
                 /\ m_cachedNzCount' = INVALID_NZ_COUNT ]_vars

\* a CSC slice view that starts after a stored value fetched its own count
C13_Witness ==
    /\ op = "NzCount" /\ cachedBefore = INVALID_NZ_COUNT /\ fetches = 1
    /\ m_format = matrixFormatSparseCSC /\ secondaryIndex(0) > 0
    /\ ret = Ok(secondaryIndex(m_numCols) - secondaryIndex(0))
    /\ m_cachedNzCount = ret.value

\* C14: on a CSR matrix RowLocation()/RowSize() are the secondary index and
\* ColLocation()/ColSize() the major index; on a CSC matrix RowLocation()/
\* RowSize() are the major index and ColLocation()/ColSize() the secondary
\* index.  The size of the major index is sizeof(index) * NzCount() and the
\* size of the secondary index is sizeof(index) * (extent + 1), the extent
\* being numRows for CSR and numCols for CSC.
C14_RowColSwapRoles ==
    [][ LET major == op' \in (IF m_format = matrixFormatSparseCSR
                              THEN {"ColLocation", "ColSize"}
                              ELSE {"RowLocation", "RowSize"})
            extent == IF m_format = matrixFormatSparseCSR THEN m_numRows ELSE m_numCols
        IN  IsCSCOrCSR(m_format) =>
              /\ op' \in {"RowLocation", "ColLocation"} =>
                   ret' = Ok(IF major THEN MajorIndexLocation(This)
                                      ELSE SecondaryIndexLocation(This))
              /\ op' \in {"RowSize", "ColSize"} =>
                   ret' = Ok(IF major THEN (sizeofIndexType * Counted.value) % SizeTModulus
                                      ELSE sizeofIndexType * (extent + 1)) ]_vars

\* RowSize() of a CSC matrix that stores a value: the bytes of its row ids
C14_Witness ==
    /\ op = "RowSize" /\ m_format = matrixFormatSparseCSC
    /\ m_cachedNzCount > 0 /\ m_cachedNzCount = FetchNzCount(This).value
    /\ ret = Ok(sizeofIndexType * m_cachedNzCount)
    /\ ret.value # sizeofIndexType * (m_numCols + 1)

\* C15 (as stated): for each of the four layouts and every bufferSize, also one
\* smaller than the index overhead, ComputeMaxNZElemFromBufferSize returns the
\* largest n with BufferSizeNeeded(numRows, numCols, n, format) <= bufferSize,
\* and ComputeMaxNZElemFromBufferSize(r, c, BufferSizeNeeded(r, c, k, f), f) = k.
C15_ComputeMaxNZIsExactInverse ==
    args.format \in SupportedFormats =>
        /\ op = "ComputeMaxNZElemFromBufferSize" =>
             /\ ret.outcome = "ok"
             /\ BufferSizeNeeded(args.numRows, args.numCols, ret.value, args.format)
                  <= args.n
             /\ BufferSizeNeeded(args.numRows, args.numCols, ret.value + 1, args.format)
                  > args.n
        /\ op = "BufferSizeNeeded" =>
             ComputeMaxNZElemFromBufferSize(args.numRows, args.numCols, ret.value,
                                            args.format) = Ok(args.n)

\* the bytes of the two index arrays of an empty matrix of the given shape
IndexOverhead == BufferSizeNeeded(args.numRows, args.numCols, 0, args.format)

\* C15 (where the code agrees): for a bufferSize of at least the index overhead
\* the returned n is the largest count that fits, and the round trip through
\* BufferSizeNeeded returns k.
C15_ExactInverseAboveIndexOverhead ==
    (args.format \in SupportedFormats
     /\ (op = "ComputeMaxNZElemFromBufferSize" => args.n >= IndexOverhead))
        => C15_ComputeMaxNZIsExactInverse

\* a buffer smaller than the index overhead, for which the call returned a
\* count of values that needs more bytes than the buffer has
C15_Witness ==
    /\ op = "ComputeMaxNZElemFromBufferSize" /\ args.format = matrixFormatSparseCSC
    /\ args.n < IndexOverhead
    /\ ret.outcome = "ok" /\ sizeofElemType * ret.value > args.n

CacheOps == {"NzCount", "InvalidateCachedNzCount", "UpdateCachedNzCount",
             "VerifyCachedNzCount"}

\* the accessors that call NzCount()
CountAccessors == {"MajorIndexCount()", "MajorIndexSize", "NzBytes", "GetNumNZElements",
                   "MatrixNorm0", "RowSize", "ColSize"}

\* C16: the cache operations and the accessors that call NzCount() leave
\* numRows, numCols, the format, sizeAllocated, blockSize, sliceViewOffset and
\* the device buffer as they were; the only state they change is
\* m_cachedNzCount, and the accessors (and NzCount() itself) change it only
\* from Invalid to Valid.
C16_CacheOpsTouchOnlyCache ==
    [][ op' \in CacheOps \cup CountAccessors =>
          /\ m_numRows' = m_numRows /\ m_numCols' = m_numCols
          /\ m_format' = m_format /\ m_elemSizeAllocated' = m_elemSizeAllocated
          /\ m_blockSize' = m_blockSize /\ m_sliceViewOffset' = m_sliceViewOffset
          /\ deviceSecondaryIndex' = deviceSecondaryIndex
          /\ (op' \in CountAccessors \cup {"NzCount"}
              /\ m_cachedNzCount' # m_cachedNzCount)
               => (~HasCachedNzCount(m_cachedNzCount)
                   /\ HasCachedNzCount(m_cachedNzCount')) ]_vars

\* MajorIndexSize() of a matrix that stores a value found the cache Invalid and
\* left it Valid
C16_Witness ==
    /\ op = "MajorIndexSize" /\ cachedBefore = INVALID_NZ_COUNT
    /\ HasCachedNzCount(m_cachedNzCount) /\ m_cachedNzCount > 0
    /\ fetches = 1 /\ ret = Ok(sizeofIndexType * m_cachedNzCount)

====
